---- MODULE Spec2Model ----
(***************************************************************************)
(* Model of RtpCpp::RtpPacket<B> (include/RtpPacket.hpp): one packet       *)
(* instance over a byte buffer B that is either growable (std::vector) or  *)
(* not (std::array, std::span).  The packet object is the record pkt, its  *)
(* fields carry the names of the data members of the class.                *)
(***************************************************************************)
EXTENDS Integers, Sequences, FiniteSets, TLC

VARIABLES
    pkt,        \* the data members of the RtpPacket instance
    growable,   \* ResizableContiguousBuffer<B>: TRUE for std::vector
    last,       \* the last call made on the instance: op, arg, res
    fault,      \* "none", or how the program stopped: "ub" / "assert"
    steps,      \* number of calls made on the instance so far
    ext_present,    \* history: the caller has given the packet an extension
                    \* (set_extension with a header, or a parsed X bit) and
                    \* has not removed it since
    setters_only,   \* history: the instance was constructed as the empty
                    \* 12-byte packet and only successful setters were called
    all_ok          \* history: every call made on the instance so far has
                    \* succeeded

vars == <<pkt, growable, last, fault, steps, ext_present, setters_only, all_ok>>

-----------------------------------------------------------------------------
(* Program constants *)

kFixedRTPSize == 12
kMaxCsrcIds == 15
kRtpVersion == 2
kCsrcIdsize == 4

\* std::size_t arithmetic is modular.  The model keeps 30 of its bits: every
\* quantity of the model is far below 2^30, and 2^30 is a multiple of 2^8 and
\* 2^16, so wrap-around and truncation to narrower types behave as in 64 bits.
SizeMod == 2^30

\* Largest allocation std::vector::resize can satisfy; a wrapped-around size
\* is above it and resize throws.
MaxAlloc == 2^20

-----------------------------------------------------------------------------
(* Bounds of the model *)

\* number of calls made on one instance
MaxSteps == 4

\* payload sizes offered to set_payload_size are 0, MaxPayload and one that
\* does not fit in the fixed buffers
MaxPayload == 3

\* number of 4-byte words in the body of a generated packet
MaxBodyWords == 3

-----------------------------------------------------------------------------
(* Integer and byte helpers *)

Szt(x) == x % SizeMod

RECURSIVE BitAndN(_, _, _)
BitAndN(a, b, n) ==
    IF n = 0 THEN 0
    ELSE (IF a % 2 = 1 /\ b % 2 = 1 THEN 1 ELSE 0)
         + 2 * BitAndN(a \div 2, b \div 2, n - 1)

RECURSIVE BitOrN(_, _, _)
BitOrN(a, b, n) ==
    IF n = 0 THEN 0
    ELSE (IF a % 2 = 1 \/ b % 2 = 1 THEN 1 ELSE 0)
         + 2 * BitOrN(a \div 2, b \div 2, n - 1)

BitAnd8(a, b) == BitAndN(a, b, 8)
BitOr8(a, b) == BitOrN(a, b, 8)
BitNot8(a) == 255 - a

Zeros(n) == [i \in 1..n |-> 0]

\* C++ indices are 0-based, sequences 1-based
InB(buf, i) == i >= 0 /\ i < Len(buf)
Rd(buf, i) == buf[i + 1]
Wr(buf, i, v) == [buf EXCEPT ![i + 1] = v]

\* std::vector<uint8_t>::resize: truncates, or appends value-initialised bytes
Resize(buf, n) ==
    IF n <= Len(buf) THEN SubSeq(buf, 1, n) ELSE buf \o Zeros(n - Len(buf))

\* a memmove whose source starts one byte early
Memmove_source_early(buf, dst, src, n) ==
    [i \in 1..Len(buf) |->
        IF i - 1 >= dst /\ i - 1 < dst + n THEN buf[(i - 1 - dst) + src] ELSE buf[i]]

\* memmove of n bytes inside buf, overlapping allowed
Memmove(buf, dst, src, n) ==
    [i \in 1..Len(buf) |->
        IF i - 1 >= dst /\ i - 1 < dst + n THEN buf[(i - dst) + src] ELSE buf[i]]

\* both ranges of a memmove lie inside the buffer (a zero-length move
\* touches no byte)
MemmoveOk(buf, dst, src, n) ==
    n = 0 \/ (dst + n <= Len(buf) /\ src + n <= Len(buf))

-----------------------------------------------------------------------------
(* endianness.hpp.  A 16-bit value is an integer; a 32-bit value is the pair
   <<high 16 bits, low 16 bits>>. *)

Read16(buf, off) == Rd(buf, off) * 256 + Rd(buf, off + 1)

Read32(buf, off) == <<Read16(buf, off), Read16(buf, off + 2)>>

Write16(buf, off, v) ==
    Wr(Wr(buf, off, (v \div 256) % 256), off + 1, v % 256)

Write32(buf, off, v) == Write16(Write16(buf, off, v[1]), off + 2, v[2])

U32Zero == <<0, 0>>

-----------------------------------------------------------------------------
(* The object *)

ExtensionHeaderZero == [id_ |-> 0, length_ |-> 0]

data_size_bytes(h) == h.length_ * 4
size_bytes(h) == 4 + data_size_bytes(h)

\* default member initialisers
MemberInit(buf, size) ==
    [ buffer_ |-> buf,
      csrc_ |-> [i \in 1..kMaxCsrcIds |-> U32Zero],
      extension_offset_ |-> kFixedRTPSize,
      payload_offset_ |-> kFixedRTPSize,
      payload_size_ |-> 0,
      packet_size_ |-> size,
      ssrc_ |-> U32Zero,
      timestamp_ |-> U32Zero,
      extension_header_ |-> ExtensionHeaderZero,
      sequence_number_ |-> 0,
      padding_bytes_ |-> 0,
      payload_type_ |-> 0,
      csrc_count_ |-> 0,
      extension_bit_ |-> FALSE,
      marker_bit_ |-> FALSE ]

\* RtpPacket() requires ResizableContiguousBuffer<B>
DefaultCtorResizable == MemberInit(Zeros(kFixedRTPSize), kFixedRTPSize)

\* explicit RtpPacket(const B& buffer), and RtpPacket() = default
CtorOverBuffer(buf) == MemberInit(buf, 0)

\* the outcome of a call: the object, the returned Result, whether the call
\* ran into undefined behaviour (an access outside buffer_)
Ret(p, r) == [p |-> p, res |-> r, ub |-> FALSE]
UB(p) == [p |-> p, res |-> "UB", ub |-> TRUE]

-----------------------------------------------------------------------------
(* Parsing *)

\* void reset() noexcept.  extension_offset_ and packet_size_ are not
\* touched.
reset(p) ==
    [p EXCEPT !.extension_bit_ = FALSE,
              !.csrc_count_ = 0,
              !.marker_bit_ = FALSE,
              !.sequence_number_ = 0,
              !.timestamp_ = U32Zero,
              !.ssrc_ = U32Zero,
              !.csrc_ = [i \in 1..kMaxCsrcIds |-> U32Zero],
              !.extension_header_ = ExtensionHeaderZero,
              !.padding_bytes_ = 0,
              !.payload_offset_ = kFixedRTPSize,
              !.payload_size_ = 0]

on_parse(p, packet_size) == [reset(p) EXCEPT !.packet_size_ = packet_size]

csrc_list_size(p) == p.csrc_count_ * kCsrcIdsize

\* the csrc_ array after extract_csrc has read the first p.csrc_count_ slots
extract_csrc(p) ==
    [p EXCEPT !.csrc_ =
        [i \in 1..kMaxCsrcIds |->
            IF i <= p.csrc_count_
            THEN Read32(p.buffer_, kFixedRTPSize + (i - 1) * kCsrcIdsize)
            ELSE p.csrc_[i]]]

parse_extension(p0) ==
    LET buf == p0.buffer_
        p1 == [p0 EXCEPT !.extension_offset_ = p0.payload_offset_]
        extension_offset == p1.extension_offset_
        length_offset == extension_offset + 2
        data_offset == length_offset + 2
    IN  IF ~InB(buf, extension_offset + 3) THEN UB(p1)
        ELSE
        LET hdr == [id_ |-> Read16(buf, extension_offset),
                    length_ |-> Read16(buf, length_offset)]
            number_of_words == hdr.length_ * 4
            p2 == [p1 EXCEPT !.extension_header_ = hdr,
                             !.payload_offset_ = Szt(data_offset + number_of_words)]
        IN  IF p2.payload_offset_ > p2.packet_size_
            THEN Ret(p2, "kParseExtensionOverflow")
            ELSE Ret([p2 EXCEPT !.payload_size_ =
                          Szt(p2.packet_size_ - p2.payload_offset_ - p2.padding_bytes_)],
                     "kSuccess")

\* parse_pkt_fields rejecting a CSRC list that ends at the end of the packet
parse_pkt_fields_inclusive(p2) ==
    LET buf == p2.buffer_
        b0 == Rd(buf, 0)
        p3 == [p2 EXCEPT !.extension_bit_ = (BitAnd8(b0, 16) \div 16 # 0),
                         !.csrc_count_ = BitAnd8(b0, 15)]
        p4 == [p3 EXCEPT !.payload_offset_ = Szt(p3.payload_offset_ + csrc_list_size(p3))]
    IN  IF p4.payload_offset_ >= p4.packet_size_
        THEN Ret(p4, "kParseBufferOverflow")
        ELSE IF p4.csrc_count_ > 0 /\ ~InB(buf, p4.payload_offset_ - 1) THEN UB(p4)
        ELSE
        LET p5 == extract_csrc(p4)
        IN  IF ~InB(buf, 11) THEN UB(p5)
            ELSE
            LET p6 == [p5 EXCEPT !.marker_bit_ = (Rd(buf, 1) \div 128 # 0),
                                 !.payload_type_ = BitAnd8(Rd(buf, 1), 127),
                                 !.sequence_number_ = Read16(buf, 2),
                                 !.timestamp_ = Read32(buf, 4),
                                 !.ssrc_ = Read32(buf, 8)]
            IN  IF p6.extension_bit_
                THEN parse_extension(p6)
                ELSE Ret([p6 EXCEPT !.payload_size_ =
                              Szt(p6.payload_size_ - p6.payload_offset_ - p6.padding_bytes_)],
                         "kSuccess")

\* parse_pkt after the padding checks: flags, CSRC list, fixed fields
parse_pkt_fields(p2) ==
    LET buf == p2.buffer_
        b0 == Rd(buf, 0)
        p3 == [p2 EXCEPT !.extension_bit_ = (BitAnd8(b0, 16) \div 16 # 0),
                         !.csrc_count_ = BitAnd8(b0, 15)]
        p4 == [p3 EXCEPT !.payload_offset_ = Szt(p3.payload_offset_ + csrc_list_size(p3))]
    IN  IF p4.payload_offset_ > p4.packet_size_
        THEN Ret(p4, "kParseBufferOverflow")
        ELSE IF p4.csrc_count_ > 0 /\ ~InB(buf, p4.payload_offset_ - 1) THEN UB(p4)
        ELSE
        LET p5 == extract_csrc(p4)
        IN  IF ~InB(buf, 11) THEN UB(p5)
            ELSE
            LET p6 == [p5 EXCEPT !.marker_bit_ = (Rd(buf, 1) \div 128 # 0),
                                 !.payload_type_ = BitAnd8(Rd(buf, 1), 127),
                                 !.sequence_number_ = Read16(buf, 2),
                                 !.timestamp_ = Read32(buf, 4),
                                 !.ssrc_ = Read32(buf, 8)]
            IN  IF p6.extension_bit_
                THEN parse_extension(p6)
                ELSE Ret([p6 EXCEPT !.payload_size_ =
                              Szt(p6.payload_size_ - p6.payload_offset_ - p6.padding_bytes_)],
                         "kSuccess")

\* parse_pkt without the check of a padding length of 0
parse_pkt_zero_padding(p0) ==
    IF p0.packet_size_ < kFixedRTPSize THEN Ret(p0, "kBufferTooSmall")
    ELSE
    LET buf == p0.buffer_
        p1 == [p0 EXCEPT !.payload_offset_ = kFixedRTPSize]
    IN  IF ~InB(buf, 0) THEN UB(p1)
        ELSE
        LET version == BitAnd8(Rd(buf, 0), 192) \div 64
            is_padded == (BitAnd8(Rd(buf, 0), 32) \div 32) # 0
        IN  IF version # kRtpVersion THEN Ret(p1, "kInvalidRtpHeader")
            ELSE IF ~is_padded THEN parse_pkt_fields(p1)
            ELSE IF ~InB(buf, p1.packet_size_ - 1) THEN UB(p1)
            ELSE
            LET p2 == [p1 EXCEPT !.padding_bytes_ = Rd(buf, p1.packet_size_ - 1)]
            IN  IF p2.packet_size_ < p2.padding_bytes_ + kFixedRTPSize
                THEN Ret(p2, "kParseBufferOverflow")
                ELSE parse_pkt_fields(p2)

parse_pkt(p0) ==
    IF p0.packet_size_ < kFixedRTPSize THEN Ret(p0, "kBufferTooSmall")
    ELSE
    LET buf == p0.buffer_
        p1 == [p0 EXCEPT !.payload_offset_ = kFixedRTPSize]
    IN  IF ~InB(buf, 0) THEN UB(p1)
        ELSE
        LET version == BitAnd8(Rd(buf, 0), 192) \div 64
            is_padded == (BitAnd8(Rd(buf, 0), 32) \div 32) # 0
        IN  IF version # kRtpVersion THEN Ret(p1, "kInvalidRtpHeader")
            ELSE IF ~is_padded THEN parse_pkt_fields(p1)
            ELSE IF ~InB(buf, p1.packet_size_ - 1) THEN UB(p1)
            ELSE
            LET p2 == [p1 EXCEPT !.padding_bytes_ = Rd(buf, p1.packet_size_ - 1)]
            IN  IF p2.padding_bytes_ = 0 THEN Ret(p2, "kInvalidRtpHeader")
                ELSE IF p2.packet_size_ < p2.padding_bytes_ + kFixedRTPSize
                THEN Ret(p2, "kParseBufferOverflow")
                ELSE parse_pkt_fields(p2)

\* the buffer indices parse_pkt reads on a buffer buf with packet_size_
\* packet_size, in the order of the code, up to and including the first
\* read outside the buffer
parse_pkt_reads(buf, packet_size) ==
    IF packet_size < kFixedRTPSize THEN {}
    ELSE IF ~InB(buf, 0) THEN {0}
    ELSE
    LET version == BitAnd8(Rd(buf, 0), 192) \div 64
        is_padded == (BitAnd8(Rd(buf, 0), 32) \div 32) # 0
        extension_bit == (BitAnd8(Rd(buf, 0), 16) \div 16) # 0
        csrc_count == BitAnd8(Rd(buf, 0), 15)
        payload_offset == kFixedRTPSize + csrc_count * kCsrcIdsize
        padding == IF is_padded THEN {0, packet_size - 1} ELSE {0}
        csrc == padding \cup kFixedRTPSize..(payload_offset - 1)
        fields == csrc \cup 1..11
    IN  IF version # kRtpVersion THEN {0}
        ELSE IF is_padded /\ ~InB(buf, packet_size - 1) THEN padding
        ELSE IF is_padded /\ ( \/ Rd(buf, packet_size - 1) = 0
                                \/ packet_size < Rd(buf, packet_size - 1) + kFixedRTPSize )
        THEN padding
        ELSE IF payload_offset > packet_size THEN padding
        ELSE IF csrc_count > 0 /\ ~InB(buf, payload_offset - 1) THEN csrc
        ELSE IF ~InB(buf, 11) THEN fields
        ELSE IF extension_bit THEN fields \cup payload_offset..(payload_offset + 3)
        ELSE fields

\* parse(const B& buffer) / parse(B&& buffer)
parse_buffer(p, buffer) ==
    parse_pkt(on_parse([p EXCEPT !.buffer_ = buffer], Len(buffer)))

\* parse(const B& buffer, std::size_t packet_size) and the B&& overload
parse_buffer_size(p, buffer, packet_size) ==
    parse_pkt(on_parse([p EXCEPT !.buffer_ = buffer], packet_size))

\* parse(std::size_t packet_size)
parse_size(p, packet_size) == parse_pkt(on_parse(p, packet_size))

\* parse()
parse_self(p) == parse_pkt(reset(p))

-----------------------------------------------------------------------------
(* Setters *)

\* a byte of the fixed header is rewritten: UB when the buffer is shorter
WriteByte(p, off, v, r) ==
    IF ~InB(p.buffer_, off) THEN UB(p)
    ELSE Ret([p EXCEPT !.buffer_ = Wr(p.buffer_, off, v)], r)

\* the flag byte after `b &= ~mask; b |= (flag << shift) & mask`
WithFlag(b, mask, flag) ==
    BitOr8(BitAnd8(b, BitNot8(mask)), IF flag THEN mask ELSE 0)

\* set_padding_bytes from `bool pad_flag = false;` on: the size check and the
\* resize of the growable backing are done, buf is the buffer they left
set_padding_bytes_body(p0, buf, padding_bytes) ==
    LET pad_flag == p0.padding_bytes_ > 0
        p1 == IF pad_flag
              THEN [p0 EXCEPT !.buffer_ = buf,
                              !.packet_size_ =
                                  Szt(Szt(p0.packet_size_ - p0.padding_bytes_) + padding_bytes),
                              !.padding_bytes_ = padding_bytes]
              ELSE [p0 EXCEPT !.buffer_ = buf]
        last_idx == Szt(p1.packet_size_ - 1)
    IN  IF pad_flag /\ ~InB(buf, last_idx) THEN UB(p1)
        ELSE
        LET p2 == IF pad_flag
                  THEN [p1 EXCEPT !.buffer_ = Wr(buf, last_idx, p1.padding_bytes_)]
                  ELSE p1
        IN  IF ~InB(p2.buffer_, 0) THEN UB(p2)
            ELSE WriteByte(p2, 0, WithFlag(Rd(p2.buffer_, 0), 32, pad_flag), "kSuccess")

\* Result set_padding_bytes(std::uint8_t padding_bytes)
set_padding_bytes(p, g, padding_bytes) ==
    LET updated_packet_size == Szt(Szt(p.packet_size_ - p.padding_bytes_) + padding_bytes)
    IN  IF g
        THEN IF updated_packet_size > Len(p.buffer_)
             THEN IF updated_packet_size > MaxAlloc THEN Ret(p, "length_error")
                  ELSE set_padding_bytes_body(p, Resize(p.buffer_, updated_packet_size),
                                              padding_bytes)
             ELSE set_padding_bytes_body(p, p.buffer_, padding_bytes)
        ELSE IF padding_bytes > Len(p.buffer_) THEN Ret(p, "kBufferTooSmall")
             ELSE set_padding_bytes_body(p, p.buffer_, padding_bytes)

\* void set_marker(bool mark)
set_marker(p, mark) ==
    LET p1 == [p EXCEPT !.marker_bit_ = mark]
    IN  IF ~InB(p.buffer_, 1) THEN UB(p1)
        ELSE WriteByte(p1, 1, WithFlag(Rd(p.buffer_, 1), 128, mark), "void")

\* void toggle_ext_bit(bool flag)
toggle_ext_bit(p, flag) ==
    LET p1 == [p EXCEPT !.extension_bit_ = flag]
    IN  IF ~InB(p.buffer_, 0) THEN UB(p1)
        ELSE WriteByte(p1, 0, WithFlag(Rd(p.buffer_, 0), 16, flag), "void")

\* set_extension with a header, from the memmove on; buf is the buffer after
\* the size check
set_extension_body(p, buf, header, dst, amount) ==
    IF ~MemmoveOk(buf, dst, p.payload_offset_, amount) THEN UB([p EXCEPT !.buffer_ = buf])
    ELSE
    LET moved == Memmove(buf, dst, p.payload_offset_, amount)
        p1 == [p EXCEPT !.buffer_ = moved,
                        !.packet_size_ = Szt(dst + amount),
                        !.payload_offset_ = dst,
                        !.extension_header_ = header]
    IN  IF ~InB(moved, p1.extension_offset_ + 3) THEN UB(p1)
        ELSE Ret([p1 EXCEPT !.buffer_ =
                      Write16(Write16(moved, p1.extension_offset_, header.id_),
                              p1.extension_offset_ + 2, header.length_)],
                 "kSuccess")

\* Result set_extension(std::optional<ExtensionHeader> header); opt.has is
\* has_value(), opt.hdr the header
set_extension(p, g, opt) ==
    IF ~opt.has
    THEN LET t == toggle_ext_bit(p, FALSE)
         IN  IF t.ub THEN t
             ELSE Ret([t.p EXCEPT !.extension_header_ = ExtensionHeaderZero], "kSuccess")
    ELSE
    LET dst == Szt(p.extension_offset_ + size_bytes(opt.hdr))
        amount == Szt(p.payload_size_ + p.padding_bytes_)
        updated_packet_size == Szt(dst + amount)
    IN  IF updated_packet_size > Len(p.buffer_)
        THEN IF g
             THEN IF updated_packet_size > MaxAlloc THEN Ret(p, "length_error")
                  ELSE set_extension_body(p, Resize(p.buffer_, updated_packet_size),
                                          opt.hdr, dst, amount)
             ELSE Ret(p, "kBufferTooSmall")
        ELSE set_extension_body(p, p.buffer_, opt.hdr, dst, amount)

\* void write_csrc(): buf with the first count slots of csrc_ written
\* big-endian from offset 12
write_csrc(buf, csrc, count) ==
    [i \in 1..Len(buf) |->
        LET off == i - 1 - kFixedRTPSize
            idx == off \div kCsrcIdsize
            v == csrc[idx + 1]
            k == off % kCsrcIdsize
        IN  IF off >= 0 /\ idx < count
            THEN IF k = 0 THEN (v[1] \div 256) % 256
                 ELSE IF k = 1 THEN v[1] % 256
                 ELSE IF k = 2 THEN (v[2] \div 256) % 256
                 ELSE v[2] % 256
            ELSE buf[i]]

\* Result set_csrc(std::uint8_t count)
set_csrc(p, count) ==
    IF count > kMaxCsrcIds THEN Ret(p, "kInvalidCsrcCount")
    ELSE
    LET current_csrc_offset == kFixedRTPSize + (kCsrcIdsize * p.csrc_count_)
        upcoming_csrc_offset == kFixedRTPSize + (kCsrcIdsize * count)
        amount == Szt(p.packet_size_ - current_csrc_offset)
    IN  IF Szt(upcoming_csrc_offset + amount) > Len(p.buffer_)
        THEN Ret(p, "kBufferTooSmall")
        ELSE IF ~MemmoveOk(p.buffer_, upcoming_csrc_offset, current_csrc_offset, amount)
        THEN UB(p)
        ELSE
        LET moved == Memmove(p.buffer_, upcoming_csrc_offset, current_csrc_offset, amount)
            p1 == [p EXCEPT !.packet_size_ =
                                Szt(Szt(p.packet_size_ - p.csrc_count_ * 4) + count * 4),
                            !.csrc_count_ = count,
                            !.buffer_ = moved]
        IN  IF ~InB(moved, 0) \/ (count > 0 /\ ~InB(moved, upcoming_csrc_offset - 1))
            THEN UB(p1)
            ELSE
            LET b0 == BitOr8(BitAnd8(Rd(moved, 0), BitNot8(15)), BitAnd8(count, 15))
            IN  Ret([p1 EXCEPT !.buffer_ = write_csrc(Wr(moved, 0, b0), p1.csrc_, count)],
                    "kSuccess")

\* Result set_csrc(): rewrites the list in place
set_csrc_noarg(p) ==
    IF p.csrc_count_ > 0 /\ ~InB(p.buffer_, kFixedRTPSize + 4 * p.csrc_count_ - 1)
    THEN UB(p)
    ELSE Ret([p EXCEPT !.buffer_ = write_csrc(p.buffer_, p.csrc_, p.csrc_count_)],
             "kSuccess")

\* void set_payload_type(std::uint8_t payload_type)
set_payload_type(p, payload_type) ==
    LET p1 == [p EXCEPT !.payload_type_ = payload_type]
    IN  IF ~InB(p.buffer_, 1) THEN UB(p1)
        ELSE WriteByte(p1, 1,
                       BitOr8(BitAnd8(Rd(p.buffer_, 1), BitNot8(127)), payload_type),
                       "void")

\* void set_sequence_number(std::uint16_t sequence_number)
set_sequence_number(p, sequence_number) ==
    LET p1 == [p EXCEPT !.sequence_number_ = sequence_number]
    IN  IF ~InB(p.buffer_, 3) THEN UB(p1)
        ELSE Ret([p1 EXCEPT !.buffer_ = Write16(p.buffer_, 2, sequence_number)], "void")

\* void set_timestamp(std::uint32_t timestamp)
set_timestamp(p, timestamp) ==
    LET p1 == [p EXCEPT !.timestamp_ = timestamp]
    IN  IF ~InB(p.buffer_, 7) THEN UB(p1)
        ELSE Ret([p1 EXCEPT !.buffer_ = Write32(p.buffer_, 4, timestamp)], "void")

\* void set_ssrc(std::uint32_t ssrc)
set_ssrc(p, ssrc) ==
    LET p1 == [p EXCEPT !.ssrc_ = ssrc]
    IN  IF ~InB(p.buffer_, 11) THEN UB(p1)
        ELSE Ret([p1 EXCEPT !.buffer_ = Write32(p.buffer_, 8, ssrc)], "void")

\* std::size_t buffer_capacity() const, for a backing that cannot grow
buffer_capacity(p) == Len(p.buffer_)

\* set_payload_size from `payload_size_ = size;` on
set_payload_size_body(p, buf, size, end) ==
    LET p1 == [p EXCEPT !.buffer_ = buf, !.payload_size_ = size, !.packet_size_ = end]
    IN  IF ~InB(buf, Szt(end - 1)) THEN UB(p1)
        ELSE Ret([p1 EXCEPT !.buffer_ = Wr(buf, Szt(end - 1), p1.padding_bytes_)],
                 "kSuccess")

\* set_payload_size assigning payload_size_ before the capacity check
set_payload_size_assign_first(p, g, size) ==
    LET end == Szt(Szt(p.payload_offset_ + size) + p.padding_bytes_)
    IN  IF g
        THEN IF end > p.packet_size_
             THEN IF end > MaxAlloc THEN Ret(p, "length_error")
                  ELSE set_payload_size_body(p, Resize(p.buffer_, end), size, end)
             ELSE set_payload_size_body(p, p.buffer_, size, end)
        ELSE IF end > buffer_capacity(p)
             THEN Ret([p EXCEPT !.payload_size_ = size], "kBufferTooSmall")
             ELSE set_payload_size_body(p, p.buffer_, size, end)

\* Result set_payload_size(std::size_t size)
set_payload_size(p, g, size) ==
    LET end == Szt(Szt(p.payload_offset_ + size) + p.padding_bytes_)
    IN  IF g
        THEN IF end > p.packet_size_
             THEN IF end > MaxAlloc THEN Ret(p, "length_error")
                  ELSE set_payload_size_body(p, Resize(p.buffer_, end), size, end)
             ELSE set_payload_size_body(p, p.buffer_, size, end)
        ELSE IF end > buffer_capacity(p) THEN Ret(p, "kBufferTooSmall")
             ELSE set_payload_size_body(p, p.buffer_, size, end)

\* PacketBuffer packet(): forces the version bits, returns packet_size_ bytes
packet(p) ==
    IF ~InB(p.buffer_, 0) THEN UB(p)
    ELSE WriteByte(p, 0, BitOr8(BitAnd8(Rd(p.buffer_, 0), BitNot8(192)), kRtpVersion * 64),
                   "span")

\* std::uint8_t get_payload_size() const: payload_size_ converted to uint8_t
get_payload_size(p) == p.payload_size_ % 256

\* PayloadSpan payload(): the two asserts, then the span
\* [&buffer_[payload_offset_], payload_size_).  res is "abort" when an assert
\* fails (a build without NDEBUG)
payload(p) ==
    IF ~(p.payload_size_ < p.packet_size_ /\ p.payload_size_ < Len(p.buffer_))
    THEN Ret(p, "abort")
    ELSE IF ~InB(p.buffer_, p.payload_offset_)
            \/ p.payload_offset_ + p.payload_size_ > Len(p.buffer_)
    THEN UB(p)
    ELSE Ret(p, "span")

-----------------------------------------------------------------------------
(* Inputs *)

\* capacities of the std::array / std::span backings: the 32 bytes of
\* tests/modify_rtp.cpp and one that holds the largest header, 12 + 4 * 15
\* bytes (the tests use 200)
FixedCaps == {32, 80}

\* size of the std::vector handed to the constructor (the tests use 200)
VectorCap == 80

\* a 12-byte packet: V=2, PT=8, seq=1, timestamp=160, SSRC=0x12345678
G711Header == <<128, 8, 0, 1, 0, 0, 0, 160, 18, 52, 86, 120>>

\* the same header followed by two payload bytes 0xD5
G711Short == G711Header \o <<213, 213>>

\* the fully populated 35-byte packet of tests/parse_rtp.cpp: padding 4,
\* extension 0xBEDE length 1, marker, CSRC 0x11 0x22, PT 127, seq 6,
\* timestamp 512, SSRC 0x55667788, payload 1 2 3
AllEnabled ==
    <<178, 255, 0, 6, 0, 0, 2, 0, 85, 102, 119, 136,
      0, 0, 0, 17, 0, 0, 0, 34,
      190, 222, 0, 1, 222, 173, 190, 239,
      1, 2, 3, 0, 0, 0, 4>>

Samples == {G711Header, G711Short, AllEnabled}

CsrcArgs == {0, 1, 2, kMaxCsrcIds, kMaxCsrcIds + 1}
PadArgs == {0, 4, 80}
NoHeader == [has |-> FALSE, hdr |-> ExtensionHeaderZero]
Header(id, length) == [has |-> TRUE, hdr |-> [id_ |-> id, length_ |-> length]]
ExtArgs == {NoHeader, Header(3, 2), Header(48862, 1), Header(4, 20)}
PayloadArgs == {0, MaxPayload, 70}
PayloadTypeArgs == {8, 200}
SeqArgs == {6}
TimestampArgs == {<<0, 512>>}
SsrcArgs == {<<21862, 30600>>}
CsrcValue(i) == <<0, 17 * (i + 1)>>

-----------------------------------------------------------------------------
(* The state machine *)

Init ==
    /\ \/ growable = TRUE /\ pkt \in {DefaultCtorResizable, CtorOverBuffer(Zeros(VectorCap))}
       \/ growable = FALSE /\ pkt \in {CtorOverBuffer(Zeros(c)) : c \in FixedCaps}
    /\ last = [op |-> "ctor", arg |-> <<Len(pkt.buffer_)>>, res |-> "void"]
    /\ fault = "none"
    /\ steps = 0
    /\ ext_present = FALSE
    /\ setters_only = (pkt.packet_size_ = kFixedRTPSize)
    /\ all_ok = TRUE

\* the calls that build a packet: the setters, the csrc() accessor and the
\* finalising packet()
SetterOps ==
    {"set_padding_bytes", "set_marker", "set_extension", "set_csrc", "set_csrc()",
     "set_payload_type", "set_sequence_number", "set_timestamp", "set_ssrc",
     "set_payload_size", "csrc", "packet"}

\* what a call that did not fail returns: Result::kSuccess, nothing, a span
Succeeded(r) == r \in {"kSuccess", "void", "span"}

\* the call op(arg) had the outcome out
Apply(out, op, arg) ==
    /\ fault = "none"
    /\ steps < MaxSteps
    /\ steps' = steps + 1
    /\ ext_present' =
           IF op = "set_extension" /\ out.res = "kSuccess" THEN arg[1] = 1
           ELSE IF op = "parse" THEN out.res = "kSuccess" /\ out.p.extension_bit_
           ELSE IF op = "reset" THEN FALSE
           ELSE ext_present
    /\ setters_only' = (setters_only /\ op \in SetterOps /\ Succeeded(out.res))
    /\ all_ok' = (all_ok /\ Succeeded(out.res))
    /\ pkt' = out.p
    /\ last' = [op |-> op, arg |-> arg, res |-> out.res]
    /\ fault' = IF out.ub THEN "ub" ELSE "none"
    /\ UNCHANGED growable

\* parse(std::move(vector)): the vector holds exactly the packet
ParseBuffer ==
    \E b \in Samples :
        /\ growable
        /\ Apply(parse_buffer(pkt, b), "parse", <<Len(b)>>)

\* parse(array, packet_size): the packet lies at the start of an array of
\* the instance's capacity
ParseBufferSize ==
    \E b \in Samples :
        /\ ~growable
        /\ Len(b) <= Len(pkt.buffer_)
        /\ Apply(parse_buffer_size(pkt, b \o Zeros(Len(pkt.buffer_) - Len(b)), Len(b)),
                 "parse", <<Len(b)>>)

ParseSize ==
    \E n \in {kFixedRTPSize, Len(pkt.buffer_)} :
        Apply(parse_size(pkt, n), "parse", <<n>>)

ParseSelf == Apply(parse_self(pkt), "parse", <<pkt.packet_size_>>)

Reset == Apply(Ret(reset(pkt), "void"), "reset", <<>>)

SetPaddingBytes ==
    \E n \in PadArgs : Apply(set_padding_bytes(pkt, growable, n), "set_padding_bytes", <<n>>)

SetMarker ==
    \E m \in BOOLEAN : Apply(set_marker(pkt, m), "set_marker", <<IF m THEN 1 ELSE 0>>)

SetExtension ==
    \E h \in ExtArgs :
        Apply(set_extension(pkt, growable, h), "set_extension",
              <<IF h.has THEN 1 ELSE 0, h.hdr.id_, h.hdr.length_>>)

SetCsrc ==
    \E k \in CsrcArgs : Apply(set_csrc(pkt, k), "set_csrc", <<k>>)

SetCsrcNoArg == Apply(set_csrc_noarg(pkt), "set_csrc()", <<>>)

SetPayloadType ==
    \E t \in PayloadTypeArgs : Apply(set_payload_type(pkt, t), "set_payload_type", <<t>>)

SetSequenceNumber ==
    \E v \in SeqArgs : Apply(set_sequence_number(pkt, v), "set_sequence_number", <<v>>)

SetTimestamp ==
    \E v \in TimestampArgs : Apply(set_timestamp(pkt, v), "set_timestamp", v)

SetSsrc ==
    \E v \in SsrcArgs : Apply(set_ssrc(pkt, v), "set_ssrc", v)

SetPayloadSize ==
    \E n \in PayloadArgs :
        Apply(set_payload_size(pkt, growable, n), "set_payload_size", <<n>>)

Packet == Apply(packet(pkt), "packet", <<pkt.packet_size_>>)

\* the condition of the assert in csrc()
csrc_assert(p) == p.csrc_count_ < kMaxCsrcIds

\* csrc()[i] = v through the span returned by csrc(); the assert of csrc()
\* holds
WriteCsrcSlot ==
    \E i \in {0, 1} :
        /\ pkt.csrc_count_ < kMaxCsrcIds
        /\ Apply(Ret([pkt EXCEPT !.csrc_[i + 1] = CsrcValue(i)], "span"), "csrc", <<i>>)

\* csrc() when its assert fails (a build without NDEBUG aborts)
CsrcAssertFails ==
    /\ fault = "none"
    /\ steps < MaxSteps
    /\ steps' = steps + 1
    /\ ~(pkt.csrc_count_ < kMaxCsrcIds)
    /\ fault' = "assert"
    /\ last' = [op |-> "csrc", arg |-> <<>>, res |-> "abort"]
    /\ setters_only' = FALSE
    /\ all_ok' = FALSE
    /\ UNCHANGED <<pkt, growable, ext_present>>

Next ==
    \/ ParseBuffer
    \/ ParseBufferSize
    \/ ParseSize
    \/ ParseSelf
    \/ Reset
    \/ SetPaddingBytes
    \/ SetMarker
    \/ SetExtension
    \/ SetCsrc
    \/ SetCsrcNoArg
    \/ SetPayloadType
    \/ SetSequenceNumber
    \/ SetTimestamp
    \/ SetSsrc
    \/ SetPayloadSize
    \/ Packet
    \/ WriteCsrcSlot
    \/ CsrcAssertFails

Spec == Init /\ [][Next]_vars

-----------------------------------------------------------------------------
(* Parsing of generated packets: one instance parses a packet built from a
   first byte, a second byte and a body of 4-byte words, possibly after it
   has parsed one of the samples, and payload() is called on the outcome. *)

\* the 12 bytes of a fixed header with the given bytes 0 and 1; the other
\* ten bytes are pairwise different
GenHeader(b0, b1) == <<b0, b1, 1, 6, 3, 4, 2, 5, 85, 102, 119, 136>>

\* byte 0: V=2 with every combination of P, X and CC in {0, 1, 15}, and
\* three bytes with another version
Byte0Args ==
    {128 + 32 * P + 16 * X + cc : P \in {0, 1}, X \in {0, 1}, cc \in {0, 1, kMaxCsrcIds}}
    \cup {33, 80, 224}

\* byte 1: PT 8 without marker, PT 127 with marker
Byte1Args == {8, 255}

\* the words a body is made of: as a CSRC id, as an extension header of
\* length 0, 17 or 1, as extension data or payload, and as the end of a
\* padding of 0, 17, 1 or 4 bytes
BodyWords == {<<0, 0, 0, 0>>, <<0, 0, 0, 17>>, <<190, 222, 0, 1>>, <<1, 2, 3, 4>>}

\* bytes after the last word
Tails == {<<>>, <<213, 1>>}

RECURSIVE Flatten(_)
Flatten(ws) == IF ws = <<>> THEN <<>> ELSE Head(ws) \o Flatten(Tail(ws))

Bodies == {Flatten(ws) : ws \in UNION {[1..k -> BodyWords] : k \in 0..MaxBodyWords}}

\* a packet with the longest CSRC list: CC = 15, the ids 0x01020304,
\* 0x05060708, ..., and three payload bytes
FullCsrcList == GenHeader(128 + kMaxCsrcIds, 8) \o [i \in 1..(4 * kMaxCsrcIds) |-> i] \o <<1, 2, 3>>

GenPackets ==
    {GenHeader(b0, b1) \o body \o t :
        b0 \in Byte0Args, b1 \in Byte1Args, body \in Bodies, t \in Tails}
    \cup {FullCsrcList}

\* a default-constructed instance: RtpPacket() over a std::vector, and
\* RtpPacket() = default over a std::span<const std::uint8_t>
ParseInit ==
    /\ \/ growable = TRUE /\ pkt = DefaultCtorResizable
       \/ growable = FALSE /\ pkt = CtorOverBuffer(<<>>)
    /\ last = [op |-> "ctor", arg |-> <<Len(pkt.buffer_)>>, res |-> "void"]
    /\ fault = "none"
    /\ steps = 0
    /\ ext_present = FALSE
    /\ setters_only = (pkt.packet_size_ = kFixedRTPSize)
    /\ all_ok = TRUE

\* parse(sample) as the first call
ParseSample ==
    /\ steps = 0
    /\ \E b \in Samples : Apply(parse_buffer(pkt, b), "parse", <<Len(b)>>)

\* parse(buffer) and parse(buffer, packet_size) of a generated packet: the
\* whole buffer, the buffer without its last word, its first 8 bytes, or a
\* packet size that is 4 bytes more than the buffer holds
ParseGenerated ==
    /\ steps = 0 \/ (steps = 1 /\ pkt.buffer_ \in Samples)
    /\ \E b \in GenPackets :
        \E n \in {Len(b), Len(b) - 4, 8, Len(b) + 4} :
            Apply(IF n = Len(b) THEN parse_buffer(pkt, b)
                     ELSE parse_buffer_size(pkt, b, n),
                     "parse", <<n>>)

\* payload() after a parse, when its asserts hold
Payload ==
    /\ last.op = "parse"
    /\ payload(pkt).res # "abort"
    /\ Apply(payload(pkt), "payload", <<pkt.payload_offset_, pkt.payload_size_>>)

\* payload() after a parse, when one of its asserts fails
PayloadAssertFails ==
    /\ fault = "none"
    /\ steps < MaxSteps
    /\ last.op = "parse"
    /\ payload(pkt).res = "abort"
    /\ steps' = steps + 1
    /\ fault' = "assert"
    /\ last' = [op |-> "payload", arg |-> <<pkt.payload_offset_, pkt.payload_size_>>,
                res |-> "abort"]
    /\ setters_only' = FALSE
    /\ all_ok' = FALSE
    /\ UNCHANGED <<pkt, growable, ext_present>>

ParseNext ==
    \/ ParseSample
    \/ ParseGenerated
    \/ Payload
    \/ PayloadAssertFails

ParseSpec == ParseInit /\ [][ParseNext]_vars

-----------------------------------------------------------------------------
(* Payload sizes of 255 bytes and more: the instances of Init, with
   set_payload_size, set_padding_bytes and parse of the samples *)

LargePayloadArgs == {255, 256, 300}

SetLargePayloadSize ==
    \E n \in LargePayloadArgs :
        Apply(set_payload_size(pkt, growable, n), "set_payload_size", <<n>>)

PayloadNext ==
    \/ SetPayloadSize
    \/ SetLargePayloadSize
    \/ SetPaddingBytes
    \/ ParseBuffer
    \/ ParseBufferSize

PayloadSpec == Init /\ [][PayloadNext]_vars

-----------------------------------------------------------------------------
(* Vocabulary of the properties *)

\* size of the extension block the packet is meant to carry
ExtensionRegionSize == IF ext_present THEN size_bytes(pkt.extension_header_) ELSE 0

\* 12 + 4*csrc_count + extension_region_size
ExpectedPayloadOffset ==
    kFixedRTPSize + 4 * pkt.csrc_count_ + ExtensionRegionSize

\* 12 + 4*csrc_count + extension_region_size + payload_size + padding_bytes
ExpectedPacketSize ==
    ExpectedPayloadOffset + pkt.payload_size_ + pkt.padding_bytes_

\* the sizes of the object agree with its fields, as they do in a packet
\* that no earlier call has left inconsistent
WellFormed == pkt.packet_size_ = ExpectedPacketSize

\* a call was made in this step and returned
Called(op) == fault = "none" /\ steps' = steps + 1 /\ last'.op = op

PaddingFlag(buf) == InB(buf, 0) /\ BitAnd8(Rd(buf, 0), 32) # 0
ExtensionFlag(buf) == InB(buf, 0) /\ BitAnd8(Rd(buf, 0), 16) # 0

-----------------------------------------------------------------------------
(* Properties *)

\* C1: after any sequence of successful setter calls on a packet that
\* starts as the empty 12-byte packet, packet().size() equals
\* 12 + 4*csrc_count + extension_region_size + payload_size + padding_bytes.
C1_BuiltPacketSize ==
    (setters_only /\ fault = "none") => pkt.packet_size_ = ExpectedPacketSize

\* C2: after every successful parse, set_csrc, set_extension,
\* set_padding_bytes and set_payload_size, payload_offset equals
\* 12 + 4*csrc_count + extension_region_size.
C2_PayloadOffset ==
    ( /\ fault = "none"
      /\ last.op \in {"parse", "set_csrc", "set_extension", "set_padding_bytes",
                      "set_payload_size"}
      /\ last.res = "kSuccess" )
    => pkt.payload_offset_ = ExpectedPayloadOffset

\* C3: a packet constructed over an existing buffer of at least 12 bytes
\* reports packet().size() == 12 before any other call.
C3_ConstructedSize ==
    (steps = 1 /\ last.op = "packet" /\ Len(pkt.buffer_) >= kFixedRTPSize)
    => last.arg = <<kFixedRTPSize>>

\* C4: from an empty packet of size 12 on a growable backing, or on a fixed
\* one of at least 72 bytes, every set_csrc(k) with 0 <= k <= 15, in any
\* order, returns Success and leaves packet().size() == 12 + 4*k and
\* get_csrc_count() == k.  The packets such calls produce are those of size
\* 12 + 4*csrc_count without payload, padding or extension.
C4_SetCsrcSucceeds ==
    [][ ( /\ Called("set_csrc")
          /\ last'.arg[1] <= kMaxCsrcIds
          /\ growable \/ Len(pkt.buffer_) >= kFixedRTPSize + 4 * kMaxCsrcIds
          /\ pkt.packet_size_ = kFixedRTPSize + 4 * pkt.csrc_count_
          /\ pkt.payload_size_ = 0
          /\ pkt.padding_bytes_ = 0
          /\ ~ext_present )
        => ( /\ last'.res = "kSuccess"
             /\ pkt'.packet_size_ = kFixedRTPSize + 4 * last'.arg[1]
             /\ pkt'.csrc_count_ = last'.arg[1] ) ]_vars

\* C5: on a packet of size S without padding whose backing can hold S + p
\* bytes, set_padding_bytes(p) with 1 <= p <= 255 returns Success and then
\* packet().size() == S + p, get_padding_bytes() == p, the last byte of the
\* packet is p and the padding flag is set.
C5_PaddingGrowth ==
    [][ ( /\ Called("set_padding_bytes")
          /\ WellFormed
          /\ pkt.padding_bytes_ = 0
          /\ last'.arg[1] >= 1 /\ last'.arg[1] <= 255
          /\ growable \/ pkt.packet_size_ + last'.arg[1] <= Len(pkt.buffer_) )
        => ( /\ last'.res = "kSuccess"
             /\ pkt'.packet_size_ = pkt.packet_size_ + last'.arg[1]
             /\ pkt'.padding_bytes_ = last'.arg[1]
             /\ InB(pkt'.buffer_, pkt'.packet_size_ - 1)
             /\ Rd(pkt'.buffer_, pkt'.packet_size_ - 1) = last'.arg[1]
             /\ PaddingFlag(pkt'.buffer_) ) ]_vars

\* C6: on a packet whose padding_bytes is q > 0, set_padding_bytes(n)
\* returns Success, changes the packet size by n - q, sets padding_bytes to
\* n and leaves the padding flag set exactly when n > 0; with n = 0 the flag
\* is cleared and the size reduced by q.
C6_PaddingReplace ==
    [][ ( /\ Called("set_padding_bytes")
          /\ WellFormed
          /\ pkt.padding_bytes_ > 0
          /\ growable
             \/ pkt.packet_size_ - pkt.padding_bytes_ + last'.arg[1] <= Len(pkt.buffer_) )
        => ( /\ last'.res = "kSuccess"
             /\ pkt'.packet_size_ = pkt.packet_size_ - pkt.padding_bytes_ + last'.arg[1]
             /\ pkt'.padding_bytes_ = last'.arg[1]
             /\ PaddingFlag(pkt'.buffer_) = (last'.arg[1] > 0) ) ]_vars

\* C7: on a packet of size S without extension, of any csrc_count, payload
\* size and padding, whose backing can hold the result,
\* set_extension({id, length}) returns Success and packet().size() becomes
\* S + 4 + 4*length.
C7_ExtensionSizeDelta ==
    [][ ( /\ Called("set_extension")
          /\ last'.arg[1] = 1
          /\ WellFormed
          /\ ~ext_present
          /\ growable \/ pkt.packet_size_ + 4 + 4 * last'.arg[3] <= Len(pkt.buffer_) )
        => ( /\ last'.res = "kSuccess"
             /\ pkt'.packet_size_ = pkt.packet_size_ + 4 + 4 * last'.arg[3] ) ]_vars

\* C8: after a successful set_extension(header) is_extended() is true and
\* bit 4 of byte 0 is set; after set_extension(none) is_extended() is false
\* and the bit is clear.
C8_ExtensionFlag ==
    (fault = "none" /\ last.op = "set_extension" /\ last.res = "kSuccess")
    => ( /\ pkt.extension_bit_ = (last.arg[1] = 1)
         /\ ExtensionFlag(pkt.buffer_) = (last.arg[1] = 1) )

\* the extension block lies right after the CSRC list
ExtensionAfterCsrc ==
    LET off == kFixedRTPSize + 4 * pkt.csrc_count_
    IN  /\ InB(pkt.buffer_, off + 3)
        /\ Read16(pkt.buffer_, off) = pkt.extension_header_.id_
        /\ Read16(pkt.buffer_, off + 2) = pkt.extension_header_.length_
        /\ pkt.extension_offset_ + 4 = off + 4

\* C9: whenever the packet has an extension, its id and length are stored
\* big-endian at offset 12 + 4*csrc_count and extension_data() starts at
\* 16 + 4*csrc_count; set_extension does not overwrite the CSRC bytes
\* [12, 12 + 4*csrc_count).
C9_ExtensionPlacement ==
    /\ []( (fault = "none" /\ ext_present /\ Succeeded(last.res)) => ExtensionAfterCsrc )
    /\ [][ (Called("set_extension") /\ last'.res = "kSuccess")
           => \A i \in kFixedRTPSize..(kFixedRTPSize + 4 * pkt.csrc_count_ - 1) :
                  InB(pkt.buffer_, i) => Rd(pkt'.buffer_, i) = Rd(pkt.buffer_, i) ]_vars

\* the size of the packet that the call recorded in last' asks for
RequestedSize ==
    LET a == last'.arg
    IN  IF last'.op = "set_csrc"
        THEN pkt.packet_size_ - 4 * pkt.csrc_count_ + 4 * a[1]
        ELSE IF last'.op = "set_padding_bytes"
        THEN pkt.packet_size_ - pkt.padding_bytes_ + a[1]
        ELSE IF last'.op = "set_payload_size"
        THEN pkt.packet_size_ - pkt.payload_size_ + a[1]
        ELSE pkt.packet_size_ - ExtensionRegionSize + 4 + 4 * a[3]

\* C10: on a fixed-capacity or borrowed backing of N bytes, a call to
\* set_csrc, set_padding_bytes, set_extension or set_payload_size whose
\* resulting packet size would exceed N returns BufferTooSmall and leaves
\* packet().size() unchanged.
C10_FixedBufferTooSmall ==
    [][ ( /\ fault = "none" /\ steps' = steps + 1
          /\ ~growable
          /\ WellFormed
          /\ \/ last'.op \in {"set_padding_bytes", "set_payload_size"}
             \/ last'.op = "set_csrc" /\ last'.arg[1] <= kMaxCsrcIds
             \/ last'.op = "set_extension" /\ last'.arg[1] = 1
          /\ RequestedSize > Len(pkt.buffer_) )
        => ( /\ last'.res = "kBufferTooSmall"
             /\ pkt'.packet_size_ = pkt.packet_size_ ) ]_vars

-----------------------------------------------------------------------------
(* Properties of failed setters and of parse *)

\* the calls that return a Result and change the layout of the packet
LayoutSetters == {"set_padding_bytes", "set_extension", "set_csrc", "set_payload_size"}

\* C11: whenever a setter returns BufferTooSmall or InvalidCsrcCount, every
\* buffer byte and every field of the packet is exactly as it was before
\* the call.
C11_FailedSetterNoChange ==
    [][ ( /\ fault = "none" /\ steps' = steps + 1
          /\ last'.op \in LayoutSetters
          /\ last'.res \in {"kBufferTooSmall", "kInvalidCsrcCount"} )
        => pkt' = pkt ]_vars

\* a setter has failed on a packet that an earlier call had grown
C11_Witness ==
    /\ last.op \in LayoutSetters
    /\ last.res \in {"kBufferTooSmall", "kInvalidCsrcCount"}
    /\ pkt.packet_size_ > kFixedRTPSize

\* the wire fields of the packet the last parse was given: the first
\* last.arg[1] bytes of buffer_ (parse does not write to the buffer)
WireSize == last.arg[1]
WireVersion == Rd(pkt.buffer_, 0) \div 64
WirePadded == (Rd(pkt.buffer_, 0) \div 32) % 2 = 1
WireExtended == (Rd(pkt.buffer_, 0) \div 16) % 2 = 1
WireCsrcCount == Rd(pkt.buffer_, 0) % 16
WireLastByte == Rd(pkt.buffer_, WireSize - 1)
WireCsrcEnd == kFixedRTPSize + 4 * WireCsrcCount

\* parse has been called on a packet of at least 12 bytes that lies inside
\* the buffer
ParsedPacket ==
    /\ last.op = "parse"
    /\ WireSize >= kFixedRTPSize
    /\ WireSize <= Len(pkt.buffer_)

WireInvalidHeader == WireVersion # kRtpVersion \/ (WirePadded /\ WireLastByte = 0)

WireBufferOverflow ==
    \/ WirePadded /\ WireSize < WireLastByte + kFixedRTPSize
    \/ WireCsrcEnd > WireSize

\* end of the extension block: 12 + 4*csrc_count + 4 + 4*length, where a
\* length field that lies outside the buffer contributes nothing
WireExtensionEnd ==
    WireCsrcEnd + 4 +
        (IF InB(pkt.buffer_, WireCsrcEnd + 3)
         THEN 4 * (Rd(pkt.buffer_, WireCsrcEnd + 2) * 256 + Rd(pkt.buffer_, WireCsrcEnd + 3))
         ELSE 0)

\* C12: for a packet of at least 12 bytes, parse returns InvalidRtpHeader
\* exactly when the version bits differ from 2, or the version is 2 and the
\* padding flag is set while the last byte of the packet is 0, whatever
\* CSRC-count, padding-length or extension overflow the bytes also contain.
C12_InvalidRtpHeader ==
    ParsedPacket => ((last.res = "kInvalidRtpHeader") <=> WireInvalidHeader)

\* a padding of length 0 is rejected in a packet whose CSRC list also
\* overflows the packet
C12_Witness ==
    /\ ParsedPacket
    /\ last.res = "kInvalidRtpHeader"
    /\ WireVersion = kRtpVersion
    /\ WireCsrcEnd > WireSize

\* C13: for a packet of at least 12 bytes with version 2 and no zero-length
\* padding, parse returns ParseBufferOverflow exactly when the padding flag
\* is set and packet_size < padding_bytes + 12, or when
\* 12 + 4*csrc_count > packet_size.
C13_ParseBufferOverflow ==
    (ParsedPacket /\ ~WireInvalidHeader)
    => ((last.res = "kParseBufferOverflow") <=> WireBufferOverflow)

\* the CSRC list of an unpadded packet overflows it
C13_Witness ==
    /\ ParsedPacket
    /\ last.res = "kParseBufferOverflow"
    /\ ~WirePadded
    /\ WireCsrcCount = 1

\* C14: for a packet that passes the version, padding and CSRC checks and
\* has the extension flag set, parse returns ParseExtensionOverflow (and not
\* ParseBufferOverflow or Success) exactly when
\* 12 + 4*csrc_count + 4 + 4*length exceeds packet_size.
C14_ParseExtensionOverflow ==
    (ParsedPacket /\ ~WireInvalidHeader /\ ~WireBufferOverflow /\ WireExtended)
    => ((last.res = "kParseExtensionOverflow") <=> (WireExtensionEnd > WireSize))

\* C15: parsing a packet whose size is smaller than the fixed 12-byte
\* header fails with InvalidHeaderLength, before any header byte is read.
C15_InvalidHeaderLength ==
    (last.op = "parse" /\ WireSize < kFixedRTPSize)
    => (last.res = "kInvalidHeaderLength" /\ fault = "none")

\* the big-endian values at offset off of the parsed buffer
Wire16(off) == Rd(pkt.buffer_, off) * 256 + Rd(pkt.buffer_, off + 1)
Wire32(off) == <<Wire16(off), Wire16(off + 2)>>

\* C16: for every buffer on which parse returns Success the getters return
\* the wire fields: padding_bytes is the last byte when bit 5 of byte 0 is
\* set and 0 otherwise, is_extended() is bit 4 and csrc_count the low 4 bits
\* of byte 0, is_marked() is bit 7 and payload_type the low 7 bits of byte 1,
\* sequence number, timestamp and SSRC are the big-endian values of bytes
\* 2-3, 4-7 and 8-11, csrc()[i] is the big-endian value at 12 + 4i for
\* i < csrc_count (csrc() returning its span), and with an extension the id
\* and length are the two big-endian 16-bit values right after the CSRC list.
C16_ParsedFields ==
    (ParsedPacket /\ last.res = "kSuccess")
    => ( /\ pkt.padding_bytes_ = (IF WirePadded THEN WireLastByte ELSE 0)
         /\ pkt.extension_bit_ = WireExtended
         /\ pkt.csrc_count_ = WireCsrcCount
         /\ pkt.marker_bit_ = (Rd(pkt.buffer_, 1) \div 128 = 1)
         /\ pkt.payload_type_ = Rd(pkt.buffer_, 1) % 128
         /\ pkt.sequence_number_ = Wire16(2)
         /\ pkt.timestamp_ = Wire32(4)
         /\ pkt.ssrc_ = Wire32(8)
         /\ WireCsrcCount > 0 => csrc_assert(pkt)
         /\ \A i \in 0..(WireCsrcCount - 1) :
                pkt.csrc_[i + 1] = Wire32(kFixedRTPSize + 4 * i)
         /\ WireExtended =>
                /\ pkt.extension_header_.id_ = Wire16(WireCsrcEnd)
                /\ pkt.extension_header_.length_ = Wire16(WireCsrcEnd + 2) )

\* C17: after every successful parse, with or without an extension header,
\* payload_size equals packet_size - payload_offset - padding_bytes, and
\* payload() returns the bytes [payload_offset, payload_offset + payload_size)
\* of the packet without violating its assertions.
C17_PayloadSize ==
    (last.op = "parse" /\ last.res = "kSuccess")
    => ( /\ pkt.payload_size_ =
                pkt.packet_size_ - pkt.payload_offset_ - pkt.padding_bytes_
         /\ payload(pkt).res = "span" )

\* C18: after every successful parse payload_offset + padding_bytes <=
\* packet_size: the padding never overlaps the fixed header, the CSRC list
\* or the extension block, and the derived payload size does not wrap.
C18_PaddingInsidePayload ==
    (last.op = "parse" /\ last.res = "kSuccess")
    => pkt.payload_offset_ + pkt.padding_bytes_ <= pkt.packet_size_

\* the object a newly constructed instance is left with by a parse of the
\* bytes and the packet size the instance holds
FreshParse == parse_pkt(on_parse(MemberInit(pkt.buffer_, 0), pkt.packet_size_)).p

\* C19: after a successful parse the state of the instance, and so the
\* result and the bytes of any later sequence of setters, depends only on
\* the parsed bytes and the packet size, not on what the instance had parsed
\* or set before.
C19_ParseForgetsHistory ==
    (last.op = "parse" /\ last.res = "kSuccess") => pkt = FreshParse

FixedHeaderSetters ==
    {"set_marker", "set_payload_type", "set_sequence_number", "set_timestamp", "set_ssrc"}

\* the bits of byte i that belong to the field the setter op writes
OwnMask(op, i) ==
    IF op = "set_marker" THEN (IF i = 1 THEN 128 ELSE 0)
    ELSE IF op = "set_payload_type" THEN (IF i = 1 THEN 127 ELSE 0)
    ELSE IF op = "set_sequence_number" THEN (IF i \in 2..3 THEN 255 ELSE 0)
    ELSE IF op = "set_timestamp" THEN (IF i \in 4..7 THEN 255 ELSE 0)
    ELSE (IF i \in 8..11 THEN 255 ELSE 0)

\* C20: each of set_marker, set_payload_type, set_sequence_number,
\* set_timestamp and set_ssrc changes only the buffer bits of its own field,
\* for every argument value of its parameter type: packet size,
\* payload_offset, every other byte and every other bit of bytes 0 and 1 are
\* unchanged.
C20_FixedHeaderFrame ==
    [][ ( /\ fault = "none" /\ steps' = steps + 1
          /\ last'.op \in FixedHeaderSetters
          /\ last'.res = "void" )
        => ( /\ pkt'.packet_size_ = pkt.packet_size_
             /\ pkt'.payload_offset_ = pkt.payload_offset_
             /\ Len(pkt'.buffer_) = Len(pkt.buffer_)
             /\ \A i \in 0..(Len(pkt.buffer_) - 1) :
                    BitAnd8(Rd(pkt'.buffer_, i), 255 - OwnMask(last'.op, i))
                    = BitAnd8(Rd(pkt.buffer_, i), 255 - OwnMask(last'.op, i)) ) ]_vars

-----------------------------------------------------------------------------
(* Properties of the cached fields, reset and the padding byte *)

\* C21: after any fixed-header setter call the cached value and the wire
\* agree: the getter returns the value that decoding the buffer bytes
\* yields; after set_payload_type(v) for any 8-bit v, get_payload_type()
\* lies in 0..127 and equals the low 7 bits of byte 1.
C21_CachedMatchesWire ==
    (fault = "none" /\ last.op \in FixedHeaderSetters)
    => ( /\ last.op = "set_marker" =>
                pkt.marker_bit_ = (Rd(pkt.buffer_, 1) \div 128 = 1)
         /\ last.op = "set_payload_type" =>
                /\ pkt.payload_type_ \in 0..127
                /\ pkt.payload_type_ = Rd(pkt.buffer_, 1) % 128
         /\ last.op = "set_sequence_number" => pkt.sequence_number_ = Wire16(2)
         /\ last.op = "set_timestamp" => pkt.timestamp_ = Wire32(4)
         /\ last.op = "set_ssrc" => pkt.ssrc_ = Wire32(8) )

\* C22: after reset(), whatever was parsed or set before, every cached and
\* derived field is zero or false (extension flag, csrc_count, marker,
\* payload_type, sequence number, timestamp, SSRC, every CSRC slot,
\* extension id and length, padding_bytes, payload_size) and payload_offset
\* is 12.
C22_ResetClears ==
    last.op = "reset"
    => ( /\ ~pkt.extension_bit_
         /\ pkt.csrc_count_ = 0
         /\ ~pkt.marker_bit_
         /\ pkt.payload_type_ = 0
         /\ pkt.sequence_number_ = 0
         /\ pkt.timestamp_ = U32Zero
         /\ pkt.ssrc_ = U32Zero
         /\ \A i \in 1..kMaxCsrcIds : pkt.csrc_[i] = U32Zero
         /\ pkt.extension_header_ = ExtensionHeaderZero
         /\ pkt.padding_bytes_ = 0
         /\ pkt.payload_size_ = 0
         /\ pkt.payload_offset_ = kFixedRTPSize )

\* C23: in every state reached by successful parse and setter calls, if
\* padding_bytes > 0 then the byte at index packet_size - 1 of the buffer
\* equals padding_bytes.
C23_PaddingByte ==
    (all_ok /\ pkt.padding_bytes_ > 0)
    => ( /\ InB(pkt.buffer_, pkt.packet_size_ - 1)
         /\ Rd(pkt.buffer_, pkt.packet_size_ - 1) = pkt.padding_bytes_ )

-----------------------------------------------------------------------------
(* Properties of the built packet, the relocation of the trailing region
   and the memory the calls touch *)

\* the bytes packet() returns, parsed by a default-constructed instance
RoundTrip ==
    parse_buffer(DefaultCtorResizable, SubSeq(pkt.buffer_, 1, pkt.packet_size_))

\* every CSRC value the caller stored through csrc() has been written to
\* the buffer by set_csrc
CsrcWritten ==
    \A i \in 0..(pkt.csrc_count_ - 1) :
        /\ InB(pkt.buffer_, kFixedRTPSize + kCsrcIdsize * i + 3)
        /\ Wire32(kFixedRTPSize + kCsrcIdsize * i) = pkt.csrc_[i + 1]

\* the fixed header of the reference wire layout for the values that were set
ReferenceHeader ==
    /\ Rd(pkt.buffer_, 0) = kRtpVersion * 64
                            + (IF pkt.padding_bytes_ > 0 THEN 32 ELSE 0)
                            + (IF ext_present THEN 16 ELSE 0)
                            + pkt.csrc_count_
    /\ Rd(pkt.buffer_, 1) = (IF pkt.marker_bit_ THEN 128 ELSE 0) + pkt.payload_type_
    /\ Wire16(2) = pkt.sequence_number_
    /\ Wire32(4) = pkt.timestamp_
    /\ Wire32(8) = pkt.ssrc_

\* C24: for a packet built through the setters, parsing the bytes returned
\* by packet() in a fresh instance returns Success and yields the same
\* padding, extension flag, id and length, CSRC list, marker, payload type,
\* sequence number, timestamp, SSRC and payload bytes that were set, and
\* the bytes equal the reference wire layout.
C24_BuildParseRoundTrip ==
    ( /\ setters_only /\ fault = "none"
      /\ last.op = "packet" /\ last.res = "span"
      /\ pkt.packet_size_ <= Len(pkt.buffer_)
      /\ CsrcWritten )
    => LET q == RoundTrip
       IN  /\ q.res = "kSuccess"
           /\ q.p.padding_bytes_ = pkt.padding_bytes_
           /\ q.p.extension_bit_ = ext_present
           /\ ext_present => q.p.extension_header_ = pkt.extension_header_
           /\ q.p.csrc_count_ = pkt.csrc_count_
           /\ \A i \in 1..pkt.csrc_count_ : q.p.csrc_[i] = pkt.csrc_[i]
           /\ q.p.marker_bit_ = pkt.marker_bit_
           /\ q.p.payload_type_ = pkt.payload_type_
           /\ q.p.sequence_number_ = pkt.sequence_number_
           /\ q.p.timestamp_ = pkt.timestamp_
           /\ q.p.ssrc_ = pkt.ssrc_
           /\ q.p.payload_size_ = pkt.payload_size_
           /\ \A j \in 0..(pkt.payload_size_ - 1) :
                  /\ InB(pkt.buffer_, pkt.payload_offset_ + j)
                  /\ InB(q.p.buffer_, q.p.payload_offset_ + j)
                  /\ Rd(q.p.buffer_, q.p.payload_offset_ + j)
                     = Rd(pkt.buffer_, pkt.payload_offset_ + j)
           /\ ReferenceHeader

\* C25: a successful set_csrc(k) on a packet with old count c and old size
\* S relocates the trailing region intact: for every i with
\* 0 <= i < S - (12 + 4c), the byte at index 12 + 4k + i after the call is
\* the byte that was at index 12 + 4c + i before it, growing or shrinking,
\* and bytes 0..11 other than the CSRC-count bits are unchanged.
C25_SetCsrcRelocates ==
    [][ ( /\ fault = "none" /\ steps' = steps + 1
          /\ last'.op = "set_csrc" /\ last'.res = "kSuccess" )
        => ( /\ \A i \in 0..(pkt.packet_size_
                              - (kFixedRTPSize + kCsrcIdsize * pkt.csrc_count_) - 1) :
                    Rd(pkt'.buffer_, kFixedRTPSize + kCsrcIdsize * last'.arg[1] + i)
                    = Rd(pkt.buffer_, kFixedRTPSize + kCsrcIdsize * pkt.csrc_count_ + i)
             /\ BitAnd8(Rd(pkt'.buffer_, 0), 240) = BitAnd8(Rd(pkt.buffer_, 0), 240)
             /\ \A i \in 1..11 : Rd(pkt'.buffer_, i) = Rd(pkt.buffer_, i) ) ]_vars

\* set_csrc has succeeded with a nonzero count on a packet that carries
\* nonzero bytes behind its CSRC list
C25_Witness ==
    /\ fault = "none"
    /\ last.op = "set_csrc" /\ last.res = "kSuccess"
    /\ pkt.csrc_count_ > 0
    /\ pkt.packet_size_ <= Len(pkt.buffer_)
    /\ \E i \in (kFixedRTPSize + kCsrcIdsize * pkt.csrc_count_)..(pkt.packet_size_ - 1) :
           Rd(pkt.buffer_, i) # 0

\* C26: a successful set_payload_size(n), for every n including 0, leaves
\* the bytes [0, payload_offset) unchanged, and when padding_bytes is 0 it
\* writes no buffer byte at all.
C26_PayloadSizeFrame ==
    [][ ( /\ fault = "none" /\ steps' = steps + 1
          /\ last'.op = "set_payload_size" /\ last'.res = "kSuccess" )
        => ( /\ \A i \in 0..(pkt.payload_offset_ - 1) :
                    (InB(pkt.buffer_, i) /\ InB(pkt'.buffer_, i))
                    => Rd(pkt'.buffer_, i) = Rd(pkt.buffer_, i)
             /\ pkt.padding_bytes_ = 0
                => \A i \in 0..(Len(pkt.buffer_) - 1) :
                       InB(pkt'.buffer_, i) => Rd(pkt'.buffer_, i) = Rd(pkt.buffer_, i) ) ]_vars

\* the setters whose only accesses to the buffer are writes
WritingSetters == FixedHeaderSetters \cup {"set_padding_bytes", "set_payload_size"}

\* C27: in every state reached by parse and setter calls on any backing,
\* packet_size <= buffer size, and no setter writes a byte at an index
\* >= the buffer size.
C27_PacketInsideBuffer ==
    /\ last.op # "ctor" => pkt.packet_size_ <= Len(pkt.buffer_)
    /\ ~(fault = "ub" /\ last.op \in WritingSetters)

\* C28: during parse, whatever the result, every buffer index that is read
\* is smaller than both the packet size given to parse and the length of
\* the buffer.
C28_ParseReadsInside ==
    last.op = "parse"
    => \A i \in parse_pkt_reads(pkt.buffer_, last.arg[1]) :
           i < last.arg[1] /\ i < Len(pkt.buffer_)

\* C29: the assertion inside csrc() holds in every state with
\* 0 <= csrc_count <= 15.
C29_CsrcAssertion ==
    (fault = "none" /\ pkt.csrc_count_ \in 0..kMaxCsrcIds) => csrc_assert(pkt)

\* C30: get_payload_size() returns the payload size last set by a
\* successful set_payload_size(n) or derived by a successful parse, for
\* payloads of 256 bytes or more too.
C30_GetPayloadSize ==
    /\ (last.op = "set_payload_size" /\ last.res = "kSuccess")
       => get_payload_size(pkt) = last.arg[1]
    /\ (last.op = "parse" /\ last.res = "kSuccess")
       => get_payload_size(pkt) = pkt.payload_size_

====
